---- MODULE Spec2Model ----
(***************************************************************************)
(* Tree reconciliation and drag-and-drop reorder/reparent of the project   *)
(* tracker front end: the Tree Index (buildNodeTree), the Node Mutators    *)
(* (findNodeById, isDescendant, reorderWithinParent, getChildOrder,        *)
(* moveNodeWithinTree), the drag controller and the sync coordinator of    *)
(* SidebarTree, and the reorder/move handlers of the Index page.           *)
(*                                                                         *)
(* A forest is a sequence of nodes; a node is a record                     *)
(*   [id, is_task, parent_id, sort_order, hasChildren, children]           *)
(* where hasChildren = FALSE stands for `children: undefined`.             *)
(***************************************************************************)
EXTENDS Integers, Sequences, FiniteSets, TLC

\* `null` of a parent_id / parentId / an id held in state.
Null == 0

\* overNodeId value that stands for the bottom drop zone.
BottomZone == -1

----------------------------------------------------------------------------
(* Bounds of the model *)

\* ids of the records of a flat input
NodeIds == {1, 2, 3}
\* parent ids no record carries (dangling references)
DanglingIds == {9}
\* sort_order values of the flat input
SortOrders == {0, 1}
\* mutator calls applied after a build (TreeSpec)
MaxOps == 2
\* drags started in one behaviour (Spec)
MaxGestures == 2

----------------------------------------------------------------------------
(* Sequence helpers standing for the JavaScript array primitives *)

\* Array.prototype.findIndex over ids: 1-based position, 0 when absent (-1 in JS)
RECURSIVE findIndex(_, _)
findIndex(nodes, id) ==
  IF nodes = <<>> THEN 0
  ELSE IF Head(nodes).id = id THEN 1
  ELSE LET r == findIndex(Tail(nodes), id) IN IF r = 0 THEN 0 ELSE r + 1

\* nodes.map(node => node.id)
RECURSIVE mapIds(_)
mapIds(nodes) == IF nodes = <<>> THEN <<>> ELSE <<Head(nodes).id>> \o mapIds(Tail(nodes))

\* array.splice(from, 1) : the array without the element at position from
removeAt(arr, from) == SubSeq(arr, 1, from - 1) \o SubSeq(arr, from + 1, Len(arr))

\* array.splice(to, 0, x) : the array with x inserted at position to
insertAt(arr, to, x) == SubSeq(arr, 1, to - 1) \o <<x>> \o SubSeq(arr, to, Len(arr))

\* arrayMove exchanging the two elements instead of shifting the ones in between
arraySwap(arr, from, to) ==
  [i \in 1..Len(arr) |-> IF i = from THEN arr[to] ELSE IF i = to THEN arr[from] ELSE arr[i]]

\* arrayMove of @dnd-kit/sortable: remove at from, insert at to (positions 1-based)
arrayMove(arr, from, to) == insertAt(removeAt(arr, from), to, arr[from])

----------------------------------------------------------------------------
(* Tree Index *)

\* const node: Node = {...} built from one ApiNode
toNode(raw) ==
  [id |-> raw.id, is_task |-> raw.isTask, parent_id |-> raw.parentId,
   sort_order |-> raw.sortOrder, hasChildren |-> ~raw.isTask, children |-> <<>>]

\* Keys of `map` in insertion order: Map.set keeps the position of the first set of a key
RECURSIVE mapKeys(_)
mapKeys(flatNodes) ==
  IF flatNodes = <<>> THEN <<>>
  ELSE LET front == mapKeys(SubSeq(flatNodes, 1, Len(flatNodes) - 1))
           key == flatNodes[Len(flatNodes)].id
       IN IF \E i \in 1..Len(front) : front[i] = key THEN front ELSE Append(front, key)

\* map.get(id): the node of the last record set under id, or nothing
mapGet(flatNodes, id) ==
  LET hits == {i \in 1..Len(flatNodes) : flatNodes[i].id = id}
  IN IF hits = {} THEN <<>>
     ELSE <<toNode(flatNodes[CHOOSE i \in hits : \A j \in hits : j <= i])>>

\* Second pass of buildNodeTree: the id of the node whose children list receives the
\* node of key, or Null when the node is pushed to roots.
placedUnder(flatNodes, key) ==
  LET node == mapGet(flatNodes, key)[1]
  IN IF node.parent_id # Null
     THEN LET parent == mapGet(flatNodes, node.parent_id)
          IN IF parent # <<>> /\ ~parent[1].is_task THEN node.parent_id ELSE Null
     ELSE Null

\* keys whose node was pushed to the list of `where` (Null: roots), in map order
RECURSIVE keysPlaced(_, _, _)
keysPlaced(flatNodes, keys, where) ==
  IF keys = <<>> THEN <<>>
  ELSE LET rest == keysPlaced(flatNodes, Tail(keys), where)
       IN IF placedUnder(flatNodes, Head(keys)) = where THEN <<Head(keys)>> \o rest ELSE rest

\* The linked objects reachable from a list of keys (children arrays as pushed, unsorted)
RECURSIVE linked(_, _)
linked(flatNodes, keys) ==
  IF keys = <<>> THEN <<>>
  ELSE
    LET node == mapGet(flatNodes, Head(keys))[1]
        object == IF node.is_task THEN node
                  ELSE [node EXCEPT !.children =
                          linked(flatNodes, keysPlaced(flatNodes, mapKeys(flatNodes), node.id))]
    IN <<object>> \o linked(flatNodes, Tail(keys))

\* the comparator of sortChildren without the a.id - b.id tie-break
sortsBeforeByOrderOnly(a, b) == a.sort_order < b.sort_order

\* comparator of sortChildren
sortsBefore(a, b) ==
  \/ a.sort_order < b.sort_order
  \/ a.sort_order = b.sort_order /\ a.id < b.id

RECURSIVE insertSorted(_, _)
insertSorted(sorted, node) ==
  IF sorted = <<>> THEN <<node>>
  ELSE IF sortsBefore(node, Head(sorted)) THEN <<node>> \o sorted
  ELSE <<Head(sorted)>> \o insertSorted(Tail(sorted), node)

RECURSIVE sortSeq(_)
sortSeq(nodes) ==
  IF nodes = <<>> THEN <<>>
  ELSE insertSorted(sortSeq(SubSeq(nodes, 1, Len(nodes) - 1)), nodes[Len(nodes)])

\* nodes.forEach of sortChildren over the sorted array
RECURSIVE sortChildren(_)
RECURSIVE sortEach(_)
sortEach(sorted) ==
  IF sorted = <<>> THEN <<>>
  ELSE
    LET node == Head(sorted)
    IN <<IF ~node.is_task /\ node.hasChildren
         THEN [node EXCEPT !.children = sortChildren(node.children)]
         ELSE node>> \o sortEach(Tail(sorted))

sortChildren(nodes) == sortEach(sortSeq(nodes))

\* roots of buildNodeTree(flatNodes)
buildNodeTree(flatNodes) ==
  sortChildren(linked(flatNodes, keysPlaced(flatNodes, mapKeys(flatNodes), Null)))

----------------------------------------------------------------------------
(* Node Mutators *)

\* Node | null is a sequence of at most one node
RECURSIVE findNodeById(_, _)
findNodeById(nodes, id) ==
  IF nodes = <<>> THEN <<>>
  ELSE LET node == Head(nodes) IN
    IF node.id = id THEN <<node>>
    ELSE LET found == IF node.hasChildren THEN findNodeById(node.children, id) ELSE <<>> IN
      IF found # <<>> THEN found ELSE findNodeById(Tail(nodes), id)

\* The result carries `same`: the returned array is the input array itself
\* (what the caller tests with updatedTree === treeData).
RECURSIVE reorderWithinParent(_, _, _, _)
RECURSIVE reorderNested(_, _, _, _)
reorderNested(nodes, parentId, activeId, overId) ==
  IF nodes = <<>> THEN [nodes |-> <<>>, same |-> TRUE]
  ELSE
    LET node == Head(nodes)
        rest == reorderNested(Tail(nodes), parentId, activeId, overId)
        mapped ==
          IF ~node.hasChildren \/ Len(node.children) = 0 THEN [node |-> node, changed |-> FALSE]
          ELSE IF node.id = parentId THEN
            LET activeIndex == findIndex(node.children, activeId)
                overIndex == findIndex(node.children, overId)
            IN IF activeIndex = 0 \/ overIndex = 0 THEN [node |-> node, changed |-> FALSE]
               ELSE [node |-> [node EXCEPT !.children =
                                 arrayMove(node.children, activeIndex, overIndex)],
                     changed |-> TRUE]
          ELSE
            LET reorderedChildren ==
                  reorderWithinParent(node.children, parentId, activeId, overId)
            IN IF ~reorderedChildren.same
               THEN [node |-> [node EXCEPT !.children = reorderedChildren.nodes],
                     changed |-> TRUE]
               ELSE [node |-> node, changed |-> FALSE]
    IN [nodes |-> <<mapped.node>> \o rest.nodes, same |-> ~mapped.changed /\ rest.same]

reorderWithinParent(nodes, parentId, activeId, overId) ==
  IF parentId = Null THEN
    LET activeIndex == findIndex(nodes, activeId)
        overIndex == findIndex(nodes, overId)
    IN IF activeIndex = 0 \/ overIndex = 0 THEN [nodes |-> nodes, same |-> TRUE]
       ELSE [nodes |-> arrayMove(nodes, activeIndex, overIndex), same |-> FALSE]
  ELSE reorderNested(nodes, parentId, activeId, overId)

\* getChildOrder that looks for parentId among the roots only
getChildOrderOfRoots(nodes, parentId) ==
  IF parentId = Null THEN mapIds(nodes)
  ELSE IF \E i \in 1..Len(nodes) : nodes[i].id = parentId /\ nodes[i].hasChildren
  THEN mapIds((CHOOSE n \in {nodes[i] : i \in 1..Len(nodes)} : n.id = parentId).children)
  ELSE <<>>

RECURSIVE getChildOrder(_, _)
getChildOrder(nodes, parentId) ==
  IF parentId = Null THEN mapIds(nodes)
  ELSE IF nodes = <<>> THEN <<>>
  ELSE LET node == Head(nodes) IN
    IF node.id = parentId THEN (IF node.hasChildren THEN mapIds(node.children) ELSE <<>>)
    ELSE LET nested == IF node.hasChildren THEN getChildOrder(node.children, parentId) ELSE <<>> IN
      IF Len(nested) > 0 THEN nested ELSE getChildOrder(Tail(nodes), parentId)

\* isDescendant looking at the children of the node only
isChildOnly(nodes, nodeId, targetId) ==
  LET found == findNodeById(nodes, nodeId) IN
  IF found = <<>> THEN FALSE
  ELSE IF ~found[1].hasChildren THEN FALSE
  ELSE \E i \in 1..Len(found[1].children) : found[1].children[i].id = targetId

RECURSIVE isDescendant(_, _, _)
isDescendant(nodes, nodeId, targetId) ==
  LET found == findNodeById(nodes, nodeId) IN
  IF found = <<>> THEN FALSE
  ELSE IF ~found[1].hasChildren THEN FALSE
  ELSE \E i \in 1..Len(found[1].children) :
         LET child == found[1].children[i] IN
         \/ child.id = targetId
         \/ isDescendant(<<child>>, child.id, targetId)

\* removeNode of moveNodeWithinTree: the items without nodeId at any depth, and the
\* removed nodes in the order they were met (nodeToMove is the last one assigned).
RECURSIVE removeNode(_, _)
removeNode(items, nodeId) ==
  IF items = <<>> THEN [items |-> <<>>, taken |-> <<>>]
  ELSE
    LET item == Head(items)
        rest == removeNode(Tail(items), nodeId)
    IN IF item.id = nodeId THEN [items |-> rest.items, taken |-> <<item>> \o rest.taken]
       ELSE IF item.hasChildren THEN
         LET sub == removeNode(item.children, nodeId)
         IN [items |-> <<[item EXCEPT !.children = sub.items]>> \o rest.items,
             taken |-> sub.taken \o rest.taken]
       ELSE [items |-> <<item>> \o rest.items, taken |-> rest.taken]

\* insertIntoParent putting the moved node in front of the children of the new parent
RECURSIVE insertAsFirstChild(_, _, _)
insertAsFirstChild(items, newParentId, movedNode) ==
  IF items = <<>> THEN <<>>
  ELSE
    LET item == Head(items)
        mapped ==
          IF item.id = newParentId THEN
            [item EXCEPT !.hasChildren = TRUE,
                         !.children = IF item.hasChildren THEN <<movedNode>> \o item.children
                                      ELSE <<movedNode>>]
          ELSE IF item.hasChildren THEN
            [item EXCEPT !.children = insertAsFirstChild(item.children, newParentId, movedNode)]
          ELSE item
    IN <<mapped>> \o insertAsFirstChild(Tail(items), newParentId, movedNode)

\* insertIntoParent of moveNodeWithinTree
RECURSIVE insertIntoParent(_, _, _)
insertIntoParent(items, newParentId, movedNode) ==
  IF items = <<>> THEN <<>>
  ELSE
    LET item == Head(items)
        mapped ==
          IF item.id = newParentId THEN
            [item EXCEPT !.hasChildren = TRUE,
                         !.children = IF item.hasChildren THEN Append(item.children, movedNode)
                                      ELSE <<movedNode>>]
          ELSE IF item.hasChildren THEN
            [item EXCEPT !.children = insertIntoParent(item.children, newParentId, movedNode)]
          ELSE item
    IN <<mapped>> \o insertIntoParent(Tail(items), newParentId, movedNode)

\* moveNodeWithinTree without the removal of the node from where it sits
moveWithoutRemoval(nodes, nodeId, newParentId) ==
  LET found == findNodeById(nodes, nodeId)
  IN IF found = <<>> THEN nodes
     ELSE LET movedNode == [found[1] EXCEPT !.parent_id = newParentId]
          IN IF newParentId = Null THEN Append(nodes, movedNode)
             ELSE insertIntoParent(nodes, newParentId, movedNode)

moveNodeWithinTree(nodes, nodeId, newParentId) ==
  LET removed == removeNode(nodes, nodeId)
      rootsWithoutNode == removed.items
  IN IF removed.taken = <<>> THEN nodes
     ELSE
       LET nodeToMove == removed.taken[Len(removed.taken)]
           movedNode == [nodeToMove EXCEPT !.parent_id = newParentId]
       IN IF newParentId = Null THEN Append(rootsWithoutNode, movedNode)
          ELSE insertIntoParent(rootsWithoutNode, newParentId, movedNode)

----------------------------------------------------------------------------
(* Rendering *)

\* the ids of the TreeNodes rendered from a forest, parents before their children
RECURSIVE idsOf(_)
idsOf(nodes) ==
  IF nodes = <<>> THEN <<>>
  ELSE <<Head(nodes).id>>
       \o (IF Head(nodes).hasChildren THEN idsOf(Head(nodes).children) ELSE <<>>)
       \o idsOf(Tail(nodes))

idSet(nodes) == {idsOf(nodes)[i] : i \in 1..Len(idsOf(nodes))}

\* the parentId prop of the TreeNode of id: owner for the nodes of the list, node.id
\* for the TreeNodes rendered from node.children; nothing when id is not rendered
RECURSIVE ownerOf(_, _, _)
ownerOf(nodes, owner, id) ==
  IF nodes = <<>> THEN <<>>
  ELSE IF Head(nodes).id = id THEN <<owner>>
  ELSE LET below == IF Head(nodes).hasChildren
                    THEN ownerOf(Head(nodes).children, Head(nodes).id, id) ELSE <<>>
       IN IF below # <<>> THEN below ELSE ownerOf(Tail(nodes), owner, id)

\* (data.current?.parentId ?? null) of the sortable of id
dataParentId(nodes, id) ==
  LET owner == ownerOf(nodes, Null, id) IN IF owner = <<>> THEN Null ELSE owner[1]

----------------------------------------------------------------------------
(* State *)

VARIABLES
  flatNodes,          \* the flat records last handed to buildNodeTree
  treeData,           \* SidebarTree: the local forest
  latestNodesRef,     \* SidebarTree: the most recently received `nodes` prop
  isSyncingRef,       \* SidebarTree: snapshots are not applied while TRUE
  debounceTimerRef,   \* SidebarTree: handle of the last timer set, Null before the first
  timers,             \* timers set and neither fired nor cleared, with their closures
  activeDragId,       \* drag controller: the dragged node id or Null
  isShiftPressed,     \* drag controller: the reparent modifier flag
  hoveredNodeId,      \* drag controller: hovered node id or Null
  overNodeId,         \* drag controller: drop target id, BottomZone or Null
  shiftListeners,     \* window keydown/keyup listeners of a drag are attached
  calls,              \* onMove / onReorder promises not settled yet
  pendingReordersRef, \* Index: reorder requests in flight
  nextHandle,         \* timers and move calls created so far
  reorderLog,         \* history: the parent and the sibling order of the last committed
                      \* reorder gesture, and its rank in its debounce burst
  ev                  \* the last step taken: how the handler classified it, and the
                      \* error notification (toast) it raised, if any

vars == <<flatNodes, treeData, latestNodesRef, isSyncingRef, debounceTimerRef, timers,
          activeDragId, isShiftPressed, hoveredNodeId, overNodeId, shiftListeners,
          calls, pendingReordersRef, nextHandle, reorderLog, ev>>

syncVars == <<latestNodesRef, isSyncingRef, debounceTimerRef, timers, calls,
              pendingReordersRef, nextHandle, reorderLog>>
dragVars == <<activeDragId, isShiftPressed, hoveredNodeId, overNodeId, shiftListeners>>

Event(op, outcome, a, b) ==
  [op |-> op, outcome |-> outcome, a |-> a, b |-> b, toast |-> ""]

\* toast.error(message) raised by the step
Toast(event, message) == [event EXCEPT !.toast = message]

\* the records a flat input may hold for id, with sort orders drawn from sortOrders
ApiNodes(id, sortOrders) ==
  [id : {id}, parentId : {Null} \cup NodeIds \cup DanglingIds, isTask : BOOLEAN,
   sortOrder : sortOrders]

\* one record per id, as a function of the id
RecordSets(sortOrders) ==
  {f \in [NodeIds -> UNION {ApiNodes(id, sortOrders) : id \in NodeIds}] :
     \A id \in NodeIds : f[id].id = id}

\* the orders in which the records of NodeIds can be listed
Orders ==
  {o \in [1..Cardinality(NodeIds) -> NodeIds] :
     \A i, j \in 1..Cardinality(NodeIds) : i # j => o[i] # o[j]}

\* the order of increasing id
RECURSIVE ascending(_)
ascending(ids) ==
  IF ids = {} THEN <<>>
  ELSE LET least == CHOOSE x \in ids : \A y \in ids : x <= y
       IN <<least>> \o ascending(ids \ {least})

\* the flat input listing the records of f in order o
RECURSIVE FlatInput(_, _)
FlatInput(f, o) == IF o = <<>> THEN <<>> ELSE <<f[Head(o)]>> \o FlatInput(f, Tail(o))

Idle ==
  /\ latestNodesRef = <<>>
  /\ isSyncingRef = FALSE
  /\ debounceTimerRef = Null
  /\ timers = {}
  /\ activeDragId = Null
  /\ isShiftPressed = FALSE
  /\ hoveredNodeId = Null
  /\ overNodeId = Null
  /\ shiftListeners = FALSE
  /\ calls = {}
  /\ pendingReordersRef = 0
  /\ nextHandle = 0
  /\ reorderLog = [parentId |-> Null, order |-> <<>>, burst |-> 0]

----------------------------------------------------------------------------
(* TreeSpec: the Tree Index and the Node Mutators as pure functions *)

\* inputs of TreeSpec: any parent references and kinds, the default sort_order
TreeInit ==
  /\ \E f \in RecordSets({0}) : flatNodes = FlatInput(f, ascending(NodeIds))
  /\ treeData = <<>>
  /\ ev = Event("input", "", Null, Null)
  /\ Idle

Build ==
  /\ ev.op = "input"
  /\ treeData' = buildNodeTree(flatNodes)
  /\ ev' = Event("build", "", 0, Null)
  /\ UNCHANGED <<flatNodes, syncVars, dragVars>>

ApplyReorder(parentId, activeId, overId) ==
  /\ ev.op # "input"
  /\ ev.a < MaxOps
  /\ treeData' = reorderWithinParent(treeData, parentId, activeId, overId).nodes
  /\ ev' = Event("reorder", "", ev.a + 1, Null)
  /\ UNCHANGED <<flatNodes, syncVars, dragVars>>

ApplyMove(nodeId, newParentId) ==
  /\ ev.op # "input"
  /\ ev.a < MaxOps
  /\ treeData' = moveNodeWithinTree(treeData, nodeId, newParentId)
  /\ ev' = Event("move", "", ev.a + 1, Null)
  /\ UNCHANGED <<flatNodes, syncVars, dragVars>>

TreeNext ==
  \/ Build
  \/ \E parentId \in {Null} \cup NodeIds, activeId \in NodeIds, overId \in NodeIds :
       ApplyReorder(parentId, activeId, overId)
  \/ \E nodeId \in NodeIds, newParentId \in {Null} \cup NodeIds \cup DanglingIds :
       ApplyMove(nodeId, newParentId)

TreeSpec == TreeInit /\ [][TreeNext]_vars

----------------------------------------------------------------------------
(* MutatorSpec: the Node Mutators applied to the forests buildNodeTree returns *)

MutatorInit ==
  /\ \E f \in RecordSets({0}) : treeData = buildNodeTree(FlatInput(f, ascending(NodeIds)))
  /\ flatNodes = <<>>
  /\ ev = Event("build", "", 0, Null)
  /\ Idle

MutatorNext ==
  \/ \E parentId \in {Null} \cup NodeIds, activeId \in NodeIds, overId \in NodeIds :
       ApplyReorder(parentId, activeId, overId)
  \/ \E nodeId \in NodeIds, newParentId \in {Null} \cup NodeIds \cup DanglingIds :
       ApplyMove(nodeId, newParentId)

MutatorSpec == MutatorInit /\ [][MutatorNext]_vars

----------------------------------------------------------------------------
(* IndexSpec: buildNodeTree over every flat input of the bounds, in every order *)

IndexInit ==
  /\ \E f \in RecordSets(SortOrders), o \in Orders : flatNodes = FlatInput(f, o)
  /\ treeData = <<>>
  /\ ev = Event("input", "", Null, Null)
  /\ Idle

IndexNext == Build

IndexSpec == IndexInit /\ [][IndexNext]_vars

----------------------------------------------------------------------------
(* Spec: SidebarTree (drag controller, sync coordinator) under the Index page *)

\* The snapshots the server may return: three projects side by side, a project
\* holding a project and a task, three projects in a chain, and two projects
\* left after node 1 was deleted.
ServerFlats ==
  { << [id |-> 1, isTask |-> FALSE, parentId |-> Null, sortOrder |-> 0],
       [id |-> 2, isTask |-> FALSE, parentId |-> Null, sortOrder |-> 1],
       [id |-> 3, isTask |-> FALSE, parentId |-> Null, sortOrder |-> 2] >>,
    << [id |-> 1, isTask |-> FALSE, parentId |-> Null, sortOrder |-> 0],
       [id |-> 2, isTask |-> FALSE, parentId |-> 1, sortOrder |-> 0],
       [id |-> 3, isTask |-> TRUE, parentId |-> 1, sortOrder |-> 1] >>,
    << [id |-> 1, isTask |-> FALSE, parentId |-> Null, sortOrder |-> 0],
       [id |-> 2, isTask |-> FALSE, parentId |-> 1, sortOrder |-> 0],
       [id |-> 3, isTask |-> FALSE, parentId |-> 2, sortOrder |-> 0] >>,
    << [id |-> 2, isTask |-> FALSE, parentId |-> Null, sortOrder |-> 0],
       [id |-> 3, isTask |-> FALSE, parentId |-> Null, sortOrder |-> 1] >> }

\* loadTree: each flat snapshot with the roots buildNodeTree makes of it
ServerSnapshots == {[flat |-> flat, roots |-> buildNodeTree(flat)] : flat \in ServerFlats}

\* useState(nodes), useRef(nodes) with the Index page's initial rootNodes = []
Init ==
  /\ flatNodes = <<>>
  /\ treeData = <<>>
  /\ ev = Event("mount", "", Null, Null)
  /\ Idle

\* useEffect([nodes]): the roots of a loaded snapshot arrive as the `nodes` prop
SnapshotArrive(snapshot) ==
  /\ flatNodes' = snapshot.flat
  /\ latestNodesRef' = snapshot.roots
  /\ IF ~isSyncingRef
     THEN /\ treeData' = snapshot.roots
          /\ ev' = Event("snapshot", "applied", Null, Null)
     ELSE /\ treeData' = treeData
          /\ ev' = Event("snapshot", "skipped", Null, Null)
  /\ UNCHANGED <<isSyncingRef, debounceTimerRef, timers, calls, pendingReordersRef,
                 nextHandle, reorderLog, dragVars>>

\* event.active.data.current holds the sortable's data ({parentId}) and no `event`:
\* initialShiftState is false and the flag is left as it is.
handleDragStart(id) ==
  /\ activeDragId = Null
  /\ ~shiftListeners
  /\ nextHandle < MaxGestures
  /\ id \in idSet(treeData)
  /\ activeDragId' = id
  /\ shiftListeners' = TRUE
  /\ ev' = Event("drag", "", Null, Null)
  /\ UNCHANGED <<flatNodes, treeData, isShiftPressed, hoveredNodeId, overNodeId, syncVars>>

\* over: a node id, BottomZone, or Null when event.over is null
handleDragOver(over) ==
  /\ activeDragId # Null
  /\ over \in idSet(treeData) \cup {BottomZone, Null}
  /\ hoveredNodeId' = IF over = BottomZone THEN Null ELSE over
  /\ overNodeId' = over
  /\ ev' = Event("drag", "", Null, Null)
  /\ UNCHANGED <<flatNodes, treeData, activeDragId, isShiftPressed, shiftListeners, syncVars>>

\* handleKeyDown / handleKeyUp of a drag, while they are attached to the window
handleKeyDown ==
  /\ shiftListeners
  /\ ~isShiftPressed
  /\ isShiftPressed' = TRUE
  /\ ev' = Event("drag", "", Null, Null)
  /\ UNCHANGED <<flatNodes, treeData, activeDragId, hoveredNodeId, overNodeId,
                 shiftListeners, syncVars>>

handleKeyUp ==
  /\ shiftListeners
  /\ isShiftPressed
  /\ isShiftPressed' = FALSE
  /\ ev' = Event("drag", "", Null, Null)
  /\ UNCHANGED <<flatNodes, treeData, activeDragId, hoveredNodeId, overNodeId,
                 shiftListeners, syncVars>>

\* The branch handleDragEnd takes, named after what it logs or does.

\* Shift mode without the is_task test of the drop target
classifyReparentIntoTasks(nodes, activeId, over) ==
  LET overNode == findNodeById(nodes, over)
      activeNode == findNodeById(nodes, activeId)
      isTargetDescendant ==
        IF activeNode # <<>> THEN isDescendant(activeNode, activeNode[1].id, over) ELSE FALSE
  IN IF overNode = <<>> THEN "overMissing"
     ELSE IF isTargetDescendant THEN "descendant"
     ELSE IF activeNode # <<>> /\ activeNode[1].parent_id = over THEN "alreadyChild"
     ELSE "moved"

\* Shift mode: move into folder (onMove is handleMove of Index)
classifyReparent(nodes, activeId, over) ==
  LET overNode == findNodeById(nodes, over)
      activeNode == findNodeById(nodes, activeId)
      isTargetDescendant ==
        IF activeNode # <<>> THEN isDescendant(activeNode, activeNode[1].id, over) ELSE FALSE
  IN IF overNode = <<>> THEN "overMissing"
     ELSE IF overNode[1].is_task THEN "overTask"
     ELSE IF isTargetDescendant THEN "descendant"
     ELSE IF activeNode # <<>> /\ activeNode[1].parent_id = over THEN "alreadyChild"
     ELSE "moved"

\* Normal mode: reorder within same parent
classifyReorder(nodes, activeId, over) ==
  LET activeParentId == dataParentId(nodes, activeId)
      overParentId == dataParentId(nodes, over)
      canReorder ==
        activeParentId = overParentId \/ (activeParentId = Null /\ overParentId = Null)
  IN IF ~canReorder THEN "crossParent"
     ELSE IF reorderWithinParent(nodes, activeParentId, activeId, over).same
     THEN "reorderUnchanged" ELSE "reordered"

\* the bottom-zone branch without the activeIndex !== treeData.length - 1 test
classifyBottomDropOfLast(nodes, activeId) ==
  IF dataParentId(nodes, activeId) = Null /\ findIndex(nodes, activeId) # 0
  THEN "bottomMoved" ELSE "bottomIgnored"

\* Dropped on the bottom zone: root-level reordering only
classifyBottomDrop(nodes, activeId) ==
  LET activeIndex == findIndex(nodes, activeId)
  IN IF dataParentId(nodes, activeId) = Null /\ activeIndex # 0 /\ activeIndex # Len(nodes)
     THEN "bottomMoved" ELSE "bottomIgnored"

\* handleDragEnd taking the Shift branch whatever the modifier was
classifyDropAlwaysShift(nodes, shift, activeId, over) ==
  IF over = Null THEN "noTarget"
  ELSE IF over = BottomZone THEN classifyBottomDrop(nodes, activeId)
  ELSE IF activeId = over THEN "self"
  ELSE classifyReparent(nodes, activeId, over)

\* handleDragEnd without the activeId === overId return
classifyDropWithoutSelfCheck(nodes, shift, activeId, over) ==
  IF over = Null THEN "noTarget"
  ELSE IF over = BottomZone THEN classifyBottomDrop(nodes, activeId)
  ELSE IF shift THEN classifyReparent(nodes, activeId, over)
  ELSE classifyReorder(nodes, activeId, over)

classifyDrop(nodes, shift, activeId, over) ==
  IF over = Null THEN "noTarget"
  ELSE IF over = BottomZone THEN classifyBottomDrop(nodes, activeId)
  ELSE IF activeId = over THEN "self"
  ELSE IF shift THEN classifyReparent(nodes, activeId, over)
  ELSE classifyReorder(nodes, activeId, over)

\* clearTimeout that leaves the timer armed
clearTimeoutKeepingTimer(armed, handle) == armed

\* clearTimeout(handle) on the armed timers
clearTimeout(armed, handle) == {t \in armed : t.h # handle}

\* the ids of the list (root list or children list) that holds id
RECURSIVE listOf(_, _)
listOf(nodes, id) ==
  IF \E i \in 1..Len(nodes) : nodes[i].id = id THEN mapIds(nodes)
  ELSE LET hits == {i \in 1..Len(nodes) :
                      nodes[i].hasChildren /\ listOf(nodes[i].children, id) # <<>>}
       IN IF hits = {} THEN <<>> ELSE listOf(nodes[CHOOSE i \in hits : TRUE].children, id)

\* setTreeData(updatedTree) and the debounce of a committed reorder
commitReorder(kind, parentId, reordered) ==
  \E updatedTree \in {reordered}, h \in {nextHandle + 1} :
     /\ treeData' = updatedTree
     /\ isSyncingRef' = TRUE
     /\ timers' = clearTimeout(timers, debounceTimerRef)
                    \cup {[h |-> h, kind |-> kind, parentId |-> parentId,
                           updatedTree |-> updatedTree]}
     /\ debounceTimerRef' = h
     /\ nextHandle' = h
     /\ reorderLog' = [parentId |-> parentId, order |-> listOf(updatedTree, activeDragId),
                       burst |-> IF timers = {} THEN 1 ELSE reorderLog.burst + 1]
     /\ UNCHANGED <<latestNodesRef, calls, pendingReordersRef>>

\* mouse button released over `overNodeId`: handleDragEnd, then the mouseup cleanup
handleDragEnd ==
  /\ activeDragId # Null
  /\ \E wasShiftPressed \in {isShiftPressed}, activeId \in {activeDragId}, over \in {overNodeId} :
     \E outcome \in {classifyDrop(treeData, wasShiftPressed, activeId, over)} :
     /\ activeDragId' = Null
     /\ isShiftPressed' = FALSE
     /\ hoveredNodeId' = Null
     /\ overNodeId' = Null
     /\ shiftListeners' = FALSE
     /\ ev' = Event("dragEnd", outcome, activeId, over)
     /\ flatNodes' = flatNodes
     /\ CASE outcome = "bottomMoved" ->
               commitReorder("bottom", Null,
                             arrayMove(treeData, findIndex(treeData, activeId), Len(treeData)))
          [] outcome = "reordered" ->
               commitReorder("reorder", dataParentId(treeData, activeId),
                             reorderWithinParent(treeData, dataParentId(treeData, activeId),
                                                 activeId, over).nodes)
          [] outcome = "moved" ->
               /\ treeData' = moveNodeWithinTree(treeData, activeId, over)
               /\ isSyncingRef' = TRUE
               /\ calls' = calls \cup {[h |-> nextHandle + 1, kind |-> "move",
                                        stage |-> "api", ok |-> TRUE, nodeId |-> activeId,
                                        parentId |-> over, orderedIds |-> <<>>]}
               /\ nextHandle' = nextHandle + 1
               /\ UNCHANGED <<latestNodesRef, debounceTimerRef, timers, pendingReordersRef,
                              reorderLog>>
          [] OTHER -> UNCHANGED <<treeData, syncVars>>

handleDragCancel ==
  /\ activeDragId # Null
  /\ activeDragId' = Null
  /\ isShiftPressed' = FALSE
  /\ hoveredNodeId' = Null
  /\ overNodeId' = Null
  /\ ev' = Event("dragCancel", "", Null, Null)
  /\ UNCHANGED <<flatNodes, treeData, shiftListeners, syncVars>>

\* the mouseup that follows a cancelled drag: cleanup() removes the key listeners
MouseUpCleanup ==
  /\ activeDragId = Null
  /\ shiftListeners
  /\ shiftListeners' = FALSE
  /\ ev' = Event("mouseUp", "", Null, Null)
  /\ UNCHANGED <<flatNodes, treeData, activeDragId, isShiftPressed, hoveredNodeId,
                 overNodeId, syncVars>>

\* the debounce callback of an armed timer runs: onReorder is handleReorder of Index
TimerFire(t) ==
  \E orderedIds \in {IF t.kind = "bottom" THEN mapIds(t.updatedTree)
                      ELSE getChildOrder(t.updatedTree, t.parentId)} :
     /\ t \in timers
     /\ timers' = timers \ {t}
     /\ IF Len(orderedIds) > 0
        THEN /\ pendingReordersRef' = pendingReordersRef + 1
             /\ calls' = calls \cup {[h |-> t.h, kind |-> "reorder", stage |-> "api",
                                      ok |-> TRUE, nodeId |-> Null,
                                      parentId |-> t.parentId, orderedIds |-> orderedIds]}
             /\ isSyncingRef' = isSyncingRef
             /\ ev' = Event("timerFire", "called", t.h, Null)
        ELSE /\ isSyncingRef' = FALSE
             /\ ev' = Event("timerFire", "empty", t.h, Null)
             /\ UNCHANGED <<pendingReordersRef, calls>>
     /\ UNCHANGED <<flatNodes, treeData, latestNodesRef, debounceTimerRef, nextHandle,
                    reorderLog, dragVars>>

\* the onReorder promise settling with the rollback that onMove's .catch has
forestRolledBackAfterReorder(ok, tree, latest) == IF ok THEN tree ELSE latest

\* the forest after the onReorder promise settled: .then and .catch only clear
\* isSyncingRef
forestAfterReorder(ok, tree, latest) == tree

\* Math.max(0, pendingReordersRef.current - 1)
decrementPending(n) == IF n - 1 > 0 THEN n - 1 ELSE 0

\* reorderNodesApi settles inside handleReorder: toast on failure, the counter goes
\* down, and at zero the promise waits for refreshTree({ force: true })
ReorderApiDone(c, ok) ==
  /\ c \in calls /\ c.kind = "reorder" /\ c.stage = "api"
  /\ pendingReordersRef' = decrementPending(pendingReordersRef)
  /\ LET raised == IF ok THEN "" ELSE "Failed to update order"
     IN IF decrementPending(pendingReordersRef) = 0
        THEN /\ calls' = (calls \ {c}) \cup {[c EXCEPT !.stage = "refresh", !.ok = ok]}
             /\ isSyncingRef' = isSyncingRef
             /\ ev' = Toast(Event("reorderApiDone", "refreshing", c.h, Null), raised)
        ELSE /\ calls' = calls \ {c}
             /\ isSyncingRef' = FALSE
             /\ ev' = Toast(Event("reorderSettled", IF ok THEN "resolved" ELSE "rejected",
                                  c.h, Null), raised)
  /\ treeData' = IF decrementPending(pendingReordersRef) = 0 THEN treeData
                 ELSE forestAfterReorder(ok, treeData, latestNodesRef)
  /\ UNCHANGED <<flatNodes, latestNodesRef, debounceTimerRef, timers,
                 nextHandle, reorderLog, dragVars>>

\* the forced refreshTree of handleReorder returns: the onReorder promise settles
ReorderRefreshDone(c) ==
  /\ c \in calls /\ c.kind = "reorder" /\ c.stage = "refresh"
  /\ calls' = calls \ {c}
  /\ isSyncingRef' = FALSE
  /\ treeData' = forestAfterReorder(c.ok, treeData, latestNodesRef)
  /\ ev' = Event("reorderSettled", IF c.ok THEN "resolved" ELSE "rejected", c.h, Null)
  /\ UNCHANGED <<flatNodes, latestNodesRef, debounceTimerRef, timers,
                 pendingReordersRef, nextHandle, reorderLog, dragVars>>

\* the onMove promise settling without the rollback of .catch
forestKeptAfterMove(ok, tree, latest) == tree

\* the forest after the onMove promise settled: .then keeps it, .catch rolls it back
forestAfterMove(ok, tree, latest) == IF ok THEN tree ELSE latest

\* moveNodeApi settles inside handleMove (toast on failure, an unforced refreshTree),
\* then the onMove promise settles in SidebarTree
MoveDone(c, ok) ==
  /\ c \in calls /\ c.kind = "move"
  /\ calls' = calls \ {c}
  /\ isSyncingRef' = FALSE
  /\ treeData' = forestAfterMove(ok, treeData, latestNodesRef)
  /\ ev' = Toast(Event("moveSettled", IF ok THEN "resolved" ELSE "rejected", c.h, Null),
                 IF ok THEN "" ELSE "Failed to move")
  /\ UNCHANGED <<flatNodes, latestNodesRef, debounceTimerRef, timers, pendingReordersRef,
                 nextHandle, reorderLog, dragVars>>

Next ==
  \/ \E snapshot \in ServerSnapshots : SnapshotArrive(snapshot)
  \/ \E id \in NodeIds : handleDragStart(id)
  \/ \E over \in NodeIds \cup {BottomZone, Null} : handleDragOver(over)
  \/ handleKeyDown
  \/ handleKeyUp
  \/ handleDragEnd
  \/ handleDragCancel
  \/ MouseUpCleanup
  \/ \E t \in timers : TimerFire(t)
  \/ \E c \in calls, ok \in BOOLEAN : ReorderApiDone(c, ok)
  \/ \E c \in calls : ReorderRefreshDone(c)
  \/ \E c \in calls, ok \in BOOLEAN : MoveDone(c, ok)

Spec == Init /\ [][Next]_vars

-----------------------------------------------------------------------------
(* The same machine with the pulls of Index spelled out: a snapshot reaches
   SidebarTree only as the result of a loadTree that refreshTree started. A
   pull in flight is kept in `calls` with kind "pull". The effect that
   receives the new `nodes` prop runs after the render React schedules for
   setRootNodes, hence after the promise continuations of the step that
   called setRootNodes. *)

Pull == [h |-> 0, kind |-> "pull", stage |-> "fetch", ok |-> TRUE, nodeId |-> Null,
         parentId |-> Null, orderedIds |-> <<>>]

\* refreshTree that skips every unforced pull
refreshTreeForcedOnly(force, pending) == IF ~force THEN {} ELSE {Pull}

\* refreshTree without the pending-reorder test
refreshTreeUnguarded(force, pending) == {Pull}

\* the pulls refreshTree({ force }) starts: none when a reorder is pending and the
\* refresh is not forced
refreshTree(force, pending) == IF ~force /\ pending > 0 THEN {} ELSE {Pull}

\* after mount: useEffect(() => { void refreshTree(); }) has started the first pull
LiveInit ==
  /\ flatNodes = <<>>
  /\ treeData = <<>>
  /\ ev = Event("mount", "", Null, Null)
  /\ latestNodesRef = <<>>
  /\ isSyncingRef = FALSE
  /\ debounceTimerRef = Null
  /\ timers = {}
  /\ activeDragId = Null
  /\ isShiftPressed = FALSE
  /\ hoveredNodeId = Null
  /\ overNodeId = Null
  /\ shiftListeners = FALSE
  /\ calls = {Pull}
  /\ pendingReordersRef = 0
  /\ nextHandle = 0
  /\ reorderLog = [parentId |-> Null, order |-> <<>>, burst |-> 0]

\* loadTree of a pull returns, setRootNodes(roots), and useEffect([nodes]) runs
PullDelivered(snapshot) ==
  /\ Pull \in calls
  /\ calls' = calls \ {Pull}
  /\ flatNodes' = snapshot.flat
  /\ latestNodesRef' = snapshot.roots
  /\ IF ~isSyncingRef
     THEN /\ treeData' = snapshot.roots
          /\ ev' = Event("snapshot", "applied", Null, Null)
     ELSE /\ treeData' = treeData
          /\ ev' = Event("snapshot", "skipped", Null, Null)
  /\ UNCHANGED <<isSyncingRef, debounceTimerRef, timers, pendingReordersRef,
                 nextHandle, reorderLog, dragVars>>

\* the refresh button: void refreshTree()
RefreshClick ==
  /\ refreshTree(FALSE, pendingReordersRef) # {}
  /\ Pull \notin calls
  /\ calls' = calls \cup refreshTree(FALSE, pendingReordersRef)
  /\ ev' = Event("refreshClick", "", Null, Null)
  /\ UNCHANGED <<flatNodes, treeData, latestNodesRef, isSyncingRef, debounceTimerRef,
                 timers, pendingReordersRef, nextHandle, reorderLog, dragVars>>

\* loadTree of the forced refreshTree of handleReorder returns: setRootNodes, the
\* onReorder promise settles, and the effect for the new snapshot is still to run
ReorderRefreshLoaded(c) ==
  /\ c \in calls /\ c.kind = "reorder" /\ c.stage = "refresh"
  /\ calls' = (calls \ {c}) \cup refreshTree(TRUE, pendingReordersRef)
  /\ isSyncingRef' = FALSE
  /\ treeData' = forestAfterReorder(c.ok, treeData, latestNodesRef)
  /\ ev' = Event("reorderSettled", IF c.ok THEN "resolved" ELSE "rejected", c.h, Null)
  /\ UNCHANGED <<flatNodes, latestNodesRef, debounceTimerRef, timers,
                 pendingReordersRef, nextHandle, reorderLog, dragVars>>

\* moveNodeApi settles inside handleMove: toast on failure, void refreshTree() in
\* finally, then the onMove promise settles in SidebarTree
MoveSettled(c, ok) ==
  /\ c \in calls /\ c.kind = "move"
  /\ calls' = (calls \ {c}) \cup refreshTree(FALSE, pendingReordersRef)
  /\ isSyncingRef' = FALSE
  /\ treeData' = forestAfterMove(ok, treeData, latestNodesRef)
  /\ ev' = Toast(Event("moveSettled", IF ok THEN "resolved" ELSE "rejected", c.h, Null),
                 IF ok THEN "" ELSE "Failed to move")
  /\ UNCHANGED <<flatNodes, latestNodesRef, debounceTimerRef, timers, pendingReordersRef,
                 nextHandle, reorderLog, dragVars>>

Gesture ==
  \/ \E id \in NodeIds : handleDragStart(id)
  \/ \E over \in NodeIds \cup {BottomZone, Null} : handleDragOver(over)
  \/ handleKeyDown
  \/ handleKeyUp
  \/ handleDragEnd
  \/ handleDragCancel
  \/ MouseUpCleanup

Delivery == \E snapshot \in ServerSnapshots : PullDelivered(snapshot)
TimerFires == \E t \in timers : TimerFire(t)
ReorderApiSettles == \E c \in calls, ok \in BOOLEAN : ReorderApiDone(c, ok)
ReorderRefreshLoads == \E c \in calls : ReorderRefreshLoaded(c)
MoveSettles == \E c \in calls, ok \in BOOLEAN : MoveSettled(c, ok)

LiveNext ==
  \/ Gesture
  \/ RefreshClick
  \/ Delivery
  \/ TimerFires
  \/ ReorderApiSettles
  \/ ReorderRefreshLoads
  \/ MoveSettles

\* no pull stays in flight for ever. Delivery is enabled exactly when a pull is in
\* flight and is the only action that takes it out of `calls`, so this is
\* WF_vars(Delivery) without the snapshots in the enabling condition.
PullsReturn == []<>(Pull \notin calls)

\* timers fire, persistence calls and fetches settle, scheduled effects run
LiveSpec ==
  /\ LiveInit
  /\ [][LiveNext]_vars
  /\ PullsReturn
  /\ WF_vars(TimerFires)
  /\ WF_vars(ReorderApiSettles)
  /\ WF_vars(ReorderRefreshLoads)
  /\ WF_vars(MoveSettles)

----------------------------------------------------------------------------
(* BurstSpec: SidebarTree over a loaded forest with two sibling lists of two
   nodes each (roots 1 and 2, project 1 holding 3 and 4), so that reorder
   gestures on different parents can follow each other within the debounce
   delay. No further snapshot arrives; timers fire and calls settle. *)

BurstIds == NodeIds \cup {4}

BurstFlat ==
  << [id |-> 1, isTask |-> FALSE, parentId |-> Null, sortOrder |-> 0],
     [id |-> 2, isTask |-> FALSE, parentId |-> Null, sortOrder |-> 1],
     [id |-> 3, isTask |-> FALSE, parentId |-> 1, sortOrder |-> 0],
     [id |-> 4, isTask |-> FALSE, parentId |-> 1, sortOrder |-> 1] >>

\* useState(nodes), useRef(nodes) when the component mounts with the loaded roots
BurstInit ==
  /\ flatNodes = BurstFlat
  /\ \E roots \in {buildNodeTree(BurstFlat)} :
       /\ treeData = roots
       /\ latestNodesRef = roots
  /\ ev = Event("mount", "", Null, Null)
  /\ isSyncingRef = FALSE
  /\ debounceTimerRef = Null
  /\ timers = {}
  /\ activeDragId = Null
  /\ isShiftPressed = FALSE
  /\ hoveredNodeId = Null
  /\ overNodeId = Null
  /\ shiftListeners = FALSE
  /\ calls = {}
  /\ pendingReordersRef = 0
  /\ nextHandle = 0
  /\ reorderLog = [parentId |-> Null, order |-> <<>>, burst |-> 0]

BurstGesture ==
  \/ \E id \in BurstIds : handleDragStart(id)
  \/ \E over \in BurstIds \cup {BottomZone, Null} : handleDragOver(over)
  \/ handleKeyDown
  \/ handleKeyUp
  \/ handleDragEnd
  \/ handleDragCancel
  \/ MouseUpCleanup

ReorderRefreshReturns == \E c \in calls : ReorderRefreshDone(c)
MoveReturns == \E c \in calls, ok \in BOOLEAN : MoveDone(c, ok)

BurstNext ==
  \/ BurstGesture
  \/ TimerFires
  \/ ReorderApiSettles
  \/ ReorderRefreshReturns
  \/ MoveReturns

\* timers fire and persistence calls settle
BurstSpec ==
  /\ BurstInit
  /\ [][BurstNext]_vars
  /\ WF_vars(TimerFires)
  /\ WF_vars(ReorderApiSettles)
  /\ WF_vars(ReorderRefreshReturns)
  /\ WF_vars(MoveReturns)

----------------------------------------------------------------------------
(* ScopeSpec: the same forest with the Index page's project scope. SidebarTree
   receives filteredNodes as its `nodes` prop: the roots when no project is
   active, the children of the active project otherwise. *)

\* filteredNodes of Index without a search: nodeMap.get(activeProjectId)?.children ?? []
filteredNodes(rootNodes, activeProjectId) ==
  IF activeProjectId # Null
  THEN LET node == findNodeById(rootNodes, activeProjectId)
       IN IF node # <<>> /\ node[1].hasChildren THEN node[1].children ELSE <<>>
  ELSE rootNodes

\* SidebarTree mounts with nodes = filteredNodes for some active project
ScopeInit ==
  /\ flatNodes = BurstFlat
  /\ \E activeProjectId \in {Null} \cup BurstIds :
     \E nodes \in {filteredNodes(buildNodeTree(BurstFlat), activeProjectId)} :
       /\ treeData = nodes
       /\ latestNodesRef = nodes
       /\ ev = Event("mount", "", activeProjectId, Null)
  /\ isSyncingRef = FALSE
  /\ debounceTimerRef = Null
  /\ timers = {}
  /\ activeDragId = Null
  /\ isShiftPressed = FALSE
  /\ hoveredNodeId = Null
  /\ overNodeId = Null
  /\ shiftListeners = FALSE
  /\ calls = {}
  /\ pendingReordersRef = 0
  /\ nextHandle = 0
  /\ reorderLog = [parentId |-> Null, order |-> <<>>, burst |-> 0]

ScopeNext == BurstNext

ScopeSpec == ScopeInit /\ [][ScopeNext]_vars

----------------------------------------------------------------------------
(* Vocabulary of the properties *)

NoDuplicate(ids) == \A i, j \in 1..Len(ids) : i # j => ids[i] # ids[j]

\* every node of the list has parent_id = owner, and so on below it
RECURSIVE ParentIdsAgree(_, _)
ParentIdsAgree(nodes, owner) ==
  \A i \in 1..Len(nodes) :
    /\ nodes[i].parent_id = owner
    /\ nodes[i].hasChildren => ParentIdsAgree(nodes[i].children, nodes[i].id)

\* some node of the forest has a grandchild
RECURSIVE depthOf(_)
depthOf(nodes) ==
  IF nodes = <<>> THEN 0
  ELSE LET d == {IF nodes[i].hasChildren THEN 1 + depthOf(nodes[i].children) ELSE 1 :
                   i \in 1..Len(nodes)}
       IN CHOOSE m \in d : \A x \in d : x <= m

\* the ids below the node id: its children, their children, ...
RECURSIVE subtreeBelow(_, _)
subtreeBelow(nodes, id) ==
  UNION {IF nodes[i].id = id
         THEN (IF nodes[i].hasChildren THEN idSet(nodes[i].children) ELSE {})
         ELSE (IF nodes[i].hasChildren THEN subtreeBelow(nodes[i].children, id) ELSE {}) :
         i \in 1..Len(nodes)}

\* no node is reachable from itself by children links
Acyclic(nodes) == \A id \in idSet(nodes) : id \notin subtreeBelow(nodes, id)

\* the task ids of a forest
RECURSIVE taskIds(_)
taskIds(nodes) ==
  UNION {(IF nodes[i].is_task THEN {nodes[i].id} ELSE {})
         \cup (IF nodes[i].hasChildren THEN taskIds(nodes[i].children) ELSE {}) :
         i \in 1..Len(nodes)}

\* the id of the node whose children list holds id, Null for a root
holderOf(nodes, id) ==
  IF \E p \in idSet(nodes) : \E i \in 1..Len(listOf(nodes, id)) :
       /\ listOf(nodes, id)[i] = id
       /\ getChildOrder(nodes, p) = listOf(nodes, id)
       /\ listOf(nodes, id) # mapIds(nodes)
  THEN CHOOSE p \in idSet(nodes) :
         getChildOrder(nodes, p) = listOf(nodes, id) /\ listOf(nodes, id) # mapIds(nodes)
  ELSE Null

\* the nodes of the forest that carry id, at any depth
RECURSIVE nodesOf(_, _)
nodesOf(nodes, id) ==
  UNION {(IF nodes[i].id = id THEN {nodes[i]} ELSE {})
         \cup (IF nodes[i].hasChildren THEN nodesOf(nodes[i].children, id) ELSE {}) :
         i \in 1..Len(nodes)}

\* the ids of a list of nodes, in order
RECURSIVE idList(_)
idList(nodes) == IF nodes = <<>> THEN <<>> ELSE <<Head(nodes).id>> \o idList(Tail(nodes))

\* the ids of the children of the node id, in order; of the roots for Null; nothing
\* when the node is absent or has no children
kidsOf(nodes, id) ==
  IF id = Null THEN idList(nodes)
  ELSE IF nodesOf(nodes, id) = {} THEN <<>>
  ELSE LET node == CHOOSE n \in nodesOf(nodes, id) : TRUE
       IN IF node.hasChildren THEN idList(node.children) ELSE <<>>

\* a list of ids without x
RECURSIVE dropId(_, _)
dropId(ids, x) ==
  IF ids = <<>> THEN <<>>
  ELSE (IF Head(ids) = x THEN <<>> ELSE <<Head(ids)>>) \o dropId(Tail(ids), x)

\* the step is a drag end (mouse released while a node is dragged)
DragEndStep == activeDragId # Null /\ ev'.op = "dragEnd"

\* the persistence calls (moveNodeApi, reorderNodesApi) that have not completed
Outstanding == {c \in calls : c.stage = "api"}

----------------------------------------------------------------------------
(* Claims *)

\* C5 (P1, uniqueness): in every forest produced by buildNodeTree followed by any
\* sequence of reorderWithinParent and moveNodeWithinTree calls, no node id occurs
\* twice, neither in two children lists nor in a children list and the root list.
C5_Uniqueness == ev.op \in {"build", "reorder", "move"} => NoDuplicate(idsOf(treeData))

\* a forest of three nodes in a chain, reached by a move after an earlier mutator call
C5_Witness ==
  /\ ev.op = "move" /\ ev.a = 2
  /\ Len(idsOf(treeData)) = 3 /\ depthOf(treeData) = 3

\* C8 (parent_id consistency): in every forest out of buildNodeTree and the mutators,
\* each node's parent_id is the id of the node whose children list holds it, and is
\* null for every node of the root list.
C8_ParentIdConsistent ==
  ev.op \in {"build", "reorder", "move"} => ParentIdsAgree(treeData, Null)

\* C9 (no data loss): every record of a flat input with distinct ids is reachable from
\* the roots buildNodeTree returns, and a record whose parent id is missing from the
\* input is a root.
C9_NoRecordLost ==
  ev.op = "build" =>
    \A i \in 1..Len(flatNodes) :
      /\ flatNodes[i].id \in idSet(treeData)
      /\ flatNodes[i].parentId \in DanglingIds => findIndex(treeData, flatNodes[i].id) # 0

\* C1 (P7, refresh suppression): a snapshot that arrives while a move or reorder
\* persistence call is outstanding does not replace the local forest, also when two
\* calls overlap and one of them has completed.
C1_SnapshotSuppressed ==
  (ev.op = "snapshot" /\ Outstanding # {}) => ev.outcome = "skipped"

\* C2 (P6, debounce collapse): of the reorder gestures of one debounce burst only the
\* timer of the last one stays armed; when it fires, one reorder call is issued, for
\* the parent and with the sibling order the last gesture produced; no call of a
\* gesture exists before its timer fired.
C2_DebounceCollapse ==
  /\ Cardinality(timers) <= 1
  /\ \A t \in timers : t.h = debounceTimerRef /\ ~\E c \in calls : c.h = t.h
  /\ \A c, d \in calls : c.h = d.h => c = d
  /\ ev.op = "timerFire" =>
       /\ ev.a = debounceTimerRef
       /\ \E c \in calls :
            /\ c.h = ev.a /\ c.kind = "reorder" /\ c.stage = "api"
            /\ c.parentId = reorderLog.parentId
            /\ c.orderedIds = reorderLog.order

\* the timer of the second gesture of a burst has fired
C2_Witness == ev.op = "timerFire" /\ reorderLog.burst = 2 /\ Len(reorderLog.order) = 3

\* C3 (move rollback): when the persistence call of a move fails, the local forest
\* afterwards is the most recently received snapshot and an error notification is
\* raised, whatever reorders are pending or outstanding.
C3_MoveRollback ==
  (ev.op = "moveSettled" /\ ev.outcome = "rejected") =>
    /\ treeData = latestNodesRef
    /\ ev.toast = "Failed to move"

\* a move failed while a reorder of the same forest waits for its debounce timer
C3_Witness ==
  /\ ev.op = "moveSettled" /\ ev.outcome = "rejected"
  /\ timers # {}
  /\ latestNodesRef # <<>>

\* C4 (P2, acyclicity): after any sequence of drag gestures no node of the local
\* forest is reachable from itself, and a reparent onto a descendant of the dragged
\* node leaves the forest unchanged.
C4_Acyclicity ==
  /\ Acyclic(treeData)
  /\ [][/\ treeData' # treeData => Acyclic(treeData')
        /\ (DragEndStep /\ isShiftPressed
             /\ overNodeId \in subtreeBelow(treeData, activeDragId))
           => treeData' = treeData]_vars

\* a drop with the modifier onto a grandchild of the dragged node was rejected
C4_Witness ==
  /\ ev.op = "dragEnd" /\ ev.outcome = "descendant"
  /\ ev.b \in subtreeBelow(treeData, ev.a)
  /\ ev.a \notin {holderOf(treeData, ev.b)}

\* whether a drop with the modifier names a legal reparent: the target exists, is no
\* task, is not the dragged node, not its parent and not one of its descendants
\* (the bottom drop zone is no node and none of the conditions applies to it)
LegalReparent(nodes, activeId, over) ==
  /\ over # Null
  /\ over # BottomZone =>
       /\ over \in idSet(nodes)
       /\ over \notin taskIds(nodes)
       /\ over # activeId
       /\ over # holderOf(nodes, activeId)
       /\ over \notin subtreeBelow(nodes, activeId)

\* C6 (reparent classification): a drag that ends with the modifier active changes
\* the forest and issues a move call only for a legal reparent; otherwise the forest,
\* the calls, the timers and the suppression flag stay as they are and no error is
\* raised.
C6_ReparentClassification ==
  [][(DragEndStep /\ isShiftPressed) =>
       /\ (\E c \in calls' \ calls : c.kind = "move")
            => LegalReparent(treeData, activeDragId, overNodeId)
       /\ ~LegalReparent(treeData, activeDragId, overNodeId) =>
            /\ treeData' = treeData
            /\ calls' = calls
            /\ timers' = timers
            /\ isSyncingRef' = isSyncingRef
            /\ ev'.toast = ""]_vars

\* a drop with the modifier onto a task was rejected
C6_Witness == ev.op = "dragEnd" /\ ev.outcome = "overTask"

\* C7 (reorder classification): a drag that ends without the modifier on a node
\* changes the forest only if the dragged node and the target are in the same list;
\* a drop on a target of another parent changes neither the forest nor the timers
\* nor the calls.
C7_ReorderClassification ==
  [][(DragEndStep /\ ~isShiftPressed /\ overNodeId \in idSet(treeData)) =>
       LET sameParent == listOf(treeData, activeDragId) = listOf(treeData, overNodeId)
       IN /\ treeData' # treeData => sameParent
          /\ ~sameParent =>
               /\ treeData' = treeData
               /\ timers' = timers
               /\ debounceTimerRef' = debounceTimerRef
               /\ calls' = calls
               /\ isSyncingRef' = isSyncingRef]_vars

\* a drop without the modifier on a node of another parent, while a timer is armed
C7_Witness == ev.op = "dragEnd" /\ ev.outcome = "crossParent" /\ timers # {}

\* C10 (suppression lifted only when nothing is pending): when a reorder call settles
\* while a later reorder's timer is armed or its call is outstanding, the
\* suppression flag stays set.
C10_SuppressionKept ==
  (/\ ev.op = "reorderSettled"
   /\ \/ \E t \in timers : t.h > ev.a
      \/ \E c \in Outstanding : c.kind = "reorder" /\ c.h > ev.a)
  => isSyncingRef

\* what C16 states of the forest after == moveNodeWithinTree(before, X, P)
MovePreservesSubtree(before, after, X, P) ==
  LET moved == CHOOSE n \in nodesOf(before, X) : TRUE
      others == idSet(before) \ ({X} \cup subtreeBelow(before, X))
  IN /\ idSet(after) = idSet(before)
     /\ NoDuplicate(idsOf(after))
     /\ kidsOf(after, P) = dropId(kidsOf(before, P), X) \o <<X>>
     /\ nodesOf(after, X) = {[moved EXCEPT !.parent_id = P]}
     /\ \A N \in (others \cup {Null}) \ {P} :
          kidsOf(after, N) = dropId(kidsOf(before, N), X)
     /\ \A N \in others :
          LET old == CHOOSE n \in nodesOf(before, N) : TRUE
              new == CHOOSE n \in nodesOf(after, N) : TRUE
          IN /\ new.is_task = old.is_task
             /\ new.parent_id = old.parent_id
             /\ new.sort_order = old.sort_order

\* C16 (P4, move preserves the subtree): for every forest reached, every node X of it
\* and every new parent P that is null or a node that is neither X nor below X, the
\* forest moveNodeWithinTree returns has X as the last child of P (last root for null)
\* with parent_id = P, X nowhere else, the subtree of X as it was, and every other
\* list of siblings in the order it had.
C16_MovePreservesSubtree ==
  ev.op \in {"build", "reorder", "move"} =>
    \A X \in idSet(treeData) :
      \A P \in ({Null} \cup idSet(treeData)) \ ({X} \cup subtreeBelow(treeData, X)) :
        MovePreservesSubtree(treeData, moveNodeWithinTree(treeData, X, P), X, P)

\* the first mutator call after the build moved node 1, which holds node 2, behind
\* root 3 (buildNodeTree returns the roots by increasing id)
C16_Witness ==
  /\ ev.op = "move" /\ ev.a = 1
  /\ idList(treeData) = <<3, 1>>
  /\ kidsOf(treeData, 1) = <<2>>

\* the position of x in a list of ids, 0 when absent
RECURSIVE positionOf(_, _)
positionOf(ids, x) ==
  IF ids = <<>> THEN 0
  ELSE IF Head(ids) = x THEN 1
  ELSE IF positionOf(Tail(ids), x) = 0 THEN 0 ELSE 1 + positionOf(Tail(ids), x)

\* ids with activeId taken out and put back at the position overId has in ids
reinserted(ids, activeId, overId) ==
  LET rest == dropId(ids, activeId)
      k == positionOf(ids, overId)
  IN SubSeq(rest, 1, k - 1) \o <<activeId>> \o SubSeq(rest, k, Len(rest))

\* the two forests hold the same nodes with the same fields, and the same lists of
\* siblings except for the children of parentId (the roots for Null)
SameButSiblingsOf(before, after, parentId) ==
  /\ idSet(after) = idSet(before)
  /\ Len(idsOf(after)) = Len(idsOf(before))
  /\ \A N \in (idSet(before) \cup {Null}) \ {parentId} : kidsOf(after, N) = kidsOf(before, N)
  /\ \A N \in idSet(before) :
       LET old == CHOOSE n \in nodesOf(before, N) : TRUE
           new == CHOOSE n \in nodesOf(after, N) : TRUE
       IN /\ Cardinality(nodesOf(after, N)) = 1
          /\ [new EXCEPT !.children = <<>>] = [old EXCEPT !.children = <<>>]

\* C17 (reorder semantics): on every forest reached, for every parentId (null: the
\* roots) and ids activeId, overId: when both ids are in the sibling list of parentId,
\* reorderWithinParent returns the forest that differs from the input only in that
\* list, where activeId sits at the position overId had and the others keep their
\* order; otherwise it returns the input forest, unchanged.
C17_ReorderSemantics ==
  ev.op \in {"build", "reorder", "move"} =>
    \A parentId \in {Null} \cup NodeIds \cup DanglingIds, activeId, overId \in NodeIds :
      LET siblings == kidsOf(treeData, parentId)
          result == reorderWithinParent(treeData, parentId, activeId, overId)
      IN IF positionOf(siblings, activeId) # 0 /\ positionOf(siblings, overId) # 0
         THEN /\ kidsOf(result.nodes, parentId) = reinserted(siblings, activeId, overId)
              /\ SameButSiblingsOf(treeData, result.nodes, parentId)
         ELSE result.nodes = treeData /\ result.same

\* the first mutator call after the build took the first of three roots to the place
\* of the last one
C17_Witness ==
  /\ ev.op = "reorder" /\ ev.a = 1
  /\ idList(treeData) = <<2, 3, 1>>

C19_IsDescendantExact ==
  NoDuplicate(idsOf(treeData)) =>
    \A X, Y \in NodeIds \cup DanglingIds :
      /\ isDescendant(treeData, X, Y) <=>
           (X \in idSet(treeData) /\ Y \in subtreeBelow(treeData, X))
      /\ ~isDescendant(treeData, X, X)
      /\ kidsOf(treeData, X) = <<>> => ~isDescendant(treeData, X, Y)

\* a move made a chain of three nodes: the grandchild is a descendant of the root, not the
\* other way round
C19_Witness ==
  /\ ev.op = "move"
  /\ idList(treeData) = <<1>> /\ kidsOf(treeData, 1) = <<2>> /\ kidsOf(treeData, 2) = <<3>>
  /\ isDescendant(treeData, 1, 3)
  /\ ~isDescendant(treeData, 3, 1)

\* C20: getChildOrder(forest, null) is the list of the root ids in order; for a
\* parentId in the forest at any depth it is the list of the ids of that node's
\* children in order, empty when the node has no children or is absent; and on
\* the result of reorderWithinParent on that parent it is the reordered list.
C20_ChildOrder ==
  ev.op \in {"build", "reorder", "move"} =>
    \A parentId \in {Null} \cup NodeIds \cup DanglingIds :
      /\ getChildOrder(treeData, parentId) = kidsOf(treeData, parentId)
      /\ \A activeId, overId \in NodeIds :
           LET siblings == kidsOf(treeData, parentId)
               result == reorderWithinParent(treeData, parentId, activeId, overId)
           IN getChildOrder(result.nodes, parentId) =
                IF positionOf(siblings, activeId) # 0 /\ positionOf(siblings, overId) # 0
                THEN reinserted(siblings, activeId, overId)
                ELSE siblings

\* the children of a node that is not a root were reordered, and getChildOrder
\* gives their new order
C20_Witness ==
  /\ ev.op = "reorder"
  /\ idList(treeData) = <<1>>
  /\ kidsOf(treeData, 1) = <<3, 2>>
  /\ getChildOrder(treeData, 1) = <<3, 2>>
  /\ getChildOrder(treeData, 2) = <<>>
  /\ getChildOrder(treeData, Null) = <<1>>

\* C12: a move persistence call and a reorder persistence call are never
\* outstanding at the same moment.
C12_OneClassOutstanding ==
  \A c, d \in Outstanding : c.kind = d.kind

\* reorderNodesApi of the call c failed in this step
ReorderApiFailedStep ==
  \E c \in Outstanding :
    /\ c.kind = "reorder"
    /\ ev'.a = c.h
    /\ \/ ev'.op = "reorderSettled" /\ ev'.outcome = "rejected"
       \/ ev'.op = "reorderApiDone" /\ \E d \in calls' : d.h = c.h /\ ~d.ok

\* the onReorder promise was rejected in this step (.catch of the timer callback)
ReorderRejectedStep == ev'.op = "reorderSettled" /\ ev'.outcome = "rejected"

\* C14: when reorderNodesApi fails, the error notification is raised; neither
\* the failure of the call nor the rejection of the onReorder promise changes
\* the local forest, arms a timer or issues a persistence call; and a reorder
\* call is only ever issued by a debounce timer that fires, which is disarmed
\* by firing and was armed by a drag end (so nothing reissues the call).
C14_FailedReorder ==
  [][/\ ReorderApiFailedStep => ev'.toast = "Failed to update order"
     /\ ReorderApiFailedStep \/ ReorderRejectedStep =>
          /\ treeData' = treeData
          /\ timers' = timers
          /\ Outstanding' \subseteq Outstanding
     /\ \A c \in Outstanding' \ Outstanding :
          c.kind = "reorder" => \E t \in timers \ timers' : t.h = c.h
     /\ timers' \ timers # {} => DragEndStep
    ]_vars

\* the call failed, the notification is up and the forest still holds the
\* optimistic order, which the latest server snapshot does not
C14_Witness ==
  /\ ev.op = "reorderSettled" /\ ev.outcome = "rejected"
  /\ ev.toast = "Failed to update order"
  /\ reorderLog.order = getChildOrder(treeData, reorderLog.parentId)
  /\ treeData # latestNodesRef

\* C15: whenever no node is dragged (after a drag end or a drag cancel and
\* until the next drag start), the drop target is none and the Shift flag is
\* false.
C15_CleanIdle ==
  activeDragId = Null => overNodeId = Null /\ ~isShiftPressed

\* the dragged id, or the id of the drop target, is not in the local forest
\* when the mouse is released
NotFoundDrop ==
  /\ DragEndStep
  /\ \/ activeDragId \notin idSet(treeData)
     \/ overNodeId \in NodeIds \ idSet(treeData)

\* C13: a drag end whose dragged id or drop-target id is absent from the local
\* forest leaves the forest unchanged, does not set isSyncingRef, issues no
\* persistence call, arms no timer and raises no notification, with Shift and
\* without.
C13_NotFoundIsNoOp ==
  [][NotFoundDrop =>
       /\ UNCHANGED <<treeData, isSyncingRef, calls, timers>>
       /\ ev'.toast = ""
    ]_vars

hasLiveParent(flat, r) ==
  /\ r.parentId # Null
  /\ \E j \in 1..Len(flat) : flat[j].id = r.parentId /\ ~flat[j].isTask

\* C21 (Tree Index placement): after buildNodeTree of a flat input with
\* distinct ids, every record whose parent id names a non-task record of the
\* input is in the children list of that node and in no other list, every
\* other record is in the root list and in no children list, every input id
\* is found in the forest, and a node has a children list exactly when it is
\* not a task.
C21_Placement ==
  ev.op = "build" =>
    \A i \in 1..Len(flatNodes) :
      LET r == flatNodes[i]
          home == IF hasLiveParent(flatNodes, r) THEN r.parentId ELSE Null
      IN /\ positionOf(kidsOf(treeData, home), r.id) # 0
         /\ \A q \in ({Null} \cup NodeIds) \ {home} :
              positionOf(kidsOf(treeData, q), r.id) = 0
         /\ \E n \in nodesOf(treeData, r.id) : n.hasChildren = ~r.isTask

\* the list, and every children list below it, is in increasing sort_order, and
\* in increasing id where the sort_order is the same
RECURSIVE SortedAtEveryDepth(_)
SortedAtEveryDepth(nodes) ==
  /\ \A i, j \in 1..Len(nodes) :
       i < j => \/ nodes[i].sort_order < nodes[j].sort_order
                \/ nodes[i].sort_order = nodes[j].sort_order /\ nodes[i].id < nodes[j].id
  /\ \A i \in 1..Len(nodes) :
       nodes[i].hasChildren => SortedAtEveryDepth(nodes[i].children)

\* the records of a flat input listed by increasing id
byId(flat) ==
  FlatInput([id \in {flat[i].id : i \in 1..Len(flat)} |->
               CHOOSE r \in {flat[i] : i \in 1..Len(flat)} : r.id = id],
            ascending({flat[i].id : i \in 1..Len(flat)}))

\* C22 (Tree Index ordering): in the forest buildNodeTree returns, the root
\* list and every children list at every depth are sorted by sort_order, ties
\* by id, and the forest is the same whatever the order of the records in the
\* input.
C22_Ordering ==
  ev.op = "build" =>
    /\ SortedAtEveryDepth(treeData)
    /\ treeData = buildNodeTree(byId(flatNodes))

\* three roots listed 3, 1, 2 in the input, two of them with the same sort_order
C22_Witness ==
  /\ ev.op = "build"
  /\ mapIds(flatNodes) = <<3, 1, 2>>
  /\ idList(treeData) = <<2, 3, 1>>
  /\ treeData[1].sort_order = treeData[2].sort_order

\* C23 (single debounce timer): at most one timer is armed, the one
\* debounceTimerRef names; a timer is armed only by a drag end, with a fresh
\* handle and in place of the timer armed before; a reorder call is issued
\* only by the callback of a timer that is armed at that moment; and the step
\* that cancels a timer issues no call for it. A cancelled timer therefore
\* never runs.
C23_SingleTimer ==
  [][/\ Cardinality(timers') <= 1
     /\ \A t \in timers' : t.h = debounceTimerRef'
     /\ \A t \in timers' \ timers :
          /\ DragEndStep
          /\ t.h > nextHandle
          /\ timers' = {t}
     /\ \A c \in Outstanding' \ Outstanding :
          c.kind = "reorder" =>
            /\ ev'.op = "timerFire"
            /\ \E t \in timers \ timers' : t.h = c.h
     /\ \A t \in timers \ timers' :
          ev'.op # "timerFire" => \A c \in calls' : c.h # t.h
    ]_vars

\* a second reorder was committed while the timer of the first was armed: the
\* first timer is gone, the second is armed, and no call was issued
C23_Witness ==
  /\ ev.op = "dragEnd"
  /\ reorderLog.burst = 2
  /\ nextHandle = 2
  /\ \E t \in timers : t.h = 2
  /\ calls = {}

\* the drag that is about to end has no target, ends on the dragged node, asks
\* with Shift for a reparent that is not legal, or asks without Shift for a
\* reorder across two lists
InvalidDrop ==
  \/ overNodeId = Null
  \/ overNodeId = activeDragId
  \/ /\ isShiftPressed
     /\ overNodeId \in NodeIds
     /\ ~LegalReparent(treeData, activeDragId, overNodeId)
  \/ /\ ~isShiftPressed
     /\ overNodeId \in idSet(treeData)
     /\ listOf(treeData, activeDragId) # listOf(treeData, overNodeId)

\* C24 (invalid gestures leave pending work untouched): a drag end that is
\* invalid changes neither the forest, nor the armed timer and the handle
\* debounceTimerRef holds, nor the suppression flag, nor the calls, and raises
\* nothing; the timer armed before it still issues a call when it fires.
C24_InvalidDropKeepsPending ==
  [][(DragEndStep /\ InvalidDrop) =>
       /\ UNCHANGED <<treeData, timers, debounceTimerRef, isSyncingRef, calls,
                      pendingReordersRef>>
       /\ ev'.toast = ""
       /\ \A t \in timers' :
            Len(IF t.kind = "bottom" THEN mapIds(t.updatedTree)
                ELSE getChildOrder(t.updatedTree, t.parentId)) > 0
    ]_vars

\* a drag ended with no target while the timer of an earlier reorder was armed
C24_Witness ==
  /\ ev.op = "dragEnd" /\ ev.outcome = "noTarget"
  /\ timers # {}
  /\ isSyncingRef

\* C25 (drop past the end): a drop on the bottom zone of a root that is not the
\* last root puts it last in the root list, leaves every node and every other
\* list as they were, sets the suppression flag and arms the one timer, for
\* parent null and the new root order, without issuing a call; when that
\* timer fires, one reorder call for parent null with that order is issued.
\* A drop of a nested node, of the last root or of a node that is not in the
\* forest changes nothing.
C25_DropPastTheEnd ==
  [][/\ (DragEndStep /\ overNodeId = BottomZone) =>
          LET roots == idList(treeData)
              k == positionOf(roots, activeDragId)
          IN IF k # 0 /\ k # Len(roots)
             THEN /\ idList(treeData') = dropId(roots, activeDragId) \o <<activeDragId>>
                  /\ SameButSiblingsOf(treeData, treeData', Null)
                  /\ isSyncingRef'
                  /\ calls' = calls
                  /\ \E t \in timers' :
                       /\ timers' = {t}
                       /\ t.parentId = Null
                       /\ mapIds(t.updatedTree) = idList(treeData')
             ELSE UNCHANGED <<treeData, timers, debounceTimerRef, isSyncingRef, calls>>
     /\ \A t \in timers \ timers' :
          (t.kind = "bottom" /\ ev'.op = "timerFire") =>
            \E c \in calls' :
              /\ calls' \ calls = {c}
              /\ c.kind = "reorder" /\ c.stage = "api"
              /\ c.parentId = Null
              /\ c.orderedIds = mapIds(t.updatedTree)
    ]_vars

\* the timer of a bottom-zone drop of root 1 has fired: the call carries the
\* root order with 1 last
C25_Witness ==
  /\ ev.op = "timerFire"
  /\ \E c \in Outstanding :
       c.h = ev.a /\ c.parentId = Null /\ c.orderedIds = <<2, 3, 1>>
  /\ reorderLog.burst = 1
  /\ idList(treeData) = <<2, 3, 1>>

\* C26 (reorder payload is current): when a debounce timer fires and issues
\* its reorder call, orderedIds is the list of the children of the call's
\* parent (the roots for null) in the local forest of that moment.
C26_PayloadCurrent ==
  (ev.op = "timerFire" /\ ev.outcome = "called") =>
    \A c \in Outstanding :
      c.h = ev.a => c.orderedIds = kidsOf(treeData, c.parentId)

\* C27: every reorder gesture that changed the local forest is eventually
\* followed by a reorder persistence call for that gesture's parent, also when a
\* reorder on another parent (or a bottom-zone drop) comes before the timer fired
ReorderCommittedOn(p) ==
  /\ ev.op = "dragEnd" /\ ev.outcome \in {"reordered", "bottomMoved"}
  /\ reorderLog.parentId = p

ReorderIssuedFor(p) ==
  /\ ev.op = "timerFire" /\ ev.outcome = "called"
  /\ \E c \in Outstanding : c.h = ev.a /\ c.kind = "reorder" /\ c.parentId = p

C27_ReorderPersisted ==
  \A p \in {Null} \cup BurstIds : ReorderCommittedOn(p) ~> ReorderIssuedFor(p)

\* C28: in every reorder persistence call, parentId is the parent_id of every node
\* listed in orderedIds, also when SidebarTree shows the children of the active
\* project as its top-level list
parentIdIn(nodes, id) ==
  LET node == findNodeById(nodes, id) IN IF node = <<>> THEN Null ELSE node[1].parent_id

C28_RealParent ==
  [][ (ev'.op = "timerFire" /\ ev'.outcome = "called") =>
        \A t \in timers \ timers', c \in Outstanding' \ Outstanding :
          \A i \in DOMAIN c.orderedIds :
            parentIdIn(t.updatedTree, c.orderedIds[i]) = c.parentId ]_vars

\* C29: reorderWithinParent and moveNodeWithinTree return a forest with exactly the
\* node ids of the input, whatever the arguments, including a newParentId that is
\* absent from the forest or lies inside the moved node's own subtree
C29_NodeSetConserved ==
  [][ ev'.op \in {"reorder", "move"} => idSet(treeData') = idSet(treeData) ]_vars

\* C30: the pending-reorder counter equals the number of reorder persistence calls
\* outstanding and is never negative; an unforced refresh requested while the
\* counter is above zero starts no fetch; each time the counter returns to zero
\* exactly one forced fetch is issued
ReorderCallsOutstanding == {c \in Outstanding : c.kind = "reorder"}

ForcedFetches == {c \in calls : c.kind = "reorder" /\ c.stage = "refresh"}

C30_RefreshGuard ==
  [][ /\ pendingReordersRef' = Cardinality(ReorderCallsOutstanding')
      /\ pendingReordersRef' >= 0
      /\ (ev'.op \in {"moveSettled", "refreshClick"} /\ pendingReordersRef > 0)
           => (Pull \in calls' => Pull \in calls)
      /\ Cardinality(ForcedFetches' \ ForcedFetches)
           = (IF pendingReordersRef > 0 /\ pendingReordersRef' = 0 THEN 1 ELSE 0) ]_vars

C30_Witness ==
  /\ ev.op = "moveSettled"
  /\ pendingReordersRef > 0
  /\ pendingReordersRef = Cardinality(ReorderCallsOutstanding)
  /\ Pull \notin calls
====
